---- MODULE Spec2Model ----
(***************************************************************************)
(* GridCap API (src/app.py): the squad / lineup endpoints and the tables   *)
(* they read and write.  Tables are sets of rows; an endpoint is one       *)
(* action; the HTTP answer of the last call is kept in `response`.         *)
(* Prices are kept in tenths of a million (price_m * 10), which is the     *)
(* precision price_for_player rounds to.  Time is counted in days.         *)
(***************************************************************************)
EXTENDS Integers, Sequences, FiniteSets, TLC

VARIABLES players, gameweeks, squad_picks, lineups, now, response,
          served, backend, txns

vars == <<players, gameweeks, squad_picks, lineups, now, response,
          served, backend, txns>>

(* ------------------------------ bounds --------------------------------- *)
\* Users and gameweeks that send requests, the days the clock runs, the
\* requests served in one run (counted in `served`), and the /squad/set
\* requests that can be in flight at once.
NumUsers == 1
NumGW == 2
MaxNow == 1
MaxServed == 4
NumTxns == 2

Users == 1..NumUsers
GWIds == 1..NumGW
Txns == 1..NumTxns
NoUser == 0

(* --------------------------- program constants ------------------------- *)
SquadSize == 15
StartersSize == 9
DeadlineDays == 7

OK == "ok"
ErrMissingUser == "Missing user id (X-User header or body userId)."
ErrSquadSize == "You must submit exactly 15 player_ids."
ErrNotFound == "One or more player_ids not found."
ErrStarters == "Starters must be exactly 9 players."
ErrCapVice == "Captain and vice must be different."
ErrCapAmong == "Captain and vice must be among starters."
ErrNoSquad == "Set your 15-man squad first."
ErrNotInSquad == "Starters must be chosen from your squad."
ErrGWExists == "Gameweek already exists"
ErrIntegrity == "IntegrityError"
ErrLocked == "database is locked"

Backends == {"sqlite", "mvcc"}

VALID_POS == {"QB", "RB", "WR", "TE", "K", "DEF"}

(* ------------------------------ helpers -------------------------------- *)
Range(s) == {s[i] : i \in DOMAIN s}

Interval(a, b) == [i \in 1..(b - a + 1) |-> a + i - 1]

Max(a, b) == IF a >= b THEN a ELSE b
Min(a, b) == IF a <= b THEN a ELSE b

(* ------------------------ roster feed and pricing ---------------------- *)
BasePrice(pos) ==
    CASE pos = "QB" -> 80
      [] pos = "RB" -> 75
      [] pos = "WR" -> 75
      [] pos = "TE" -> 60
      [] pos = "K" -> 50
      [] pos = "DEF" -> 50
      [] OTHER -> 60

price_for_player(p) ==
    LET base == BasePrice(p.position)
        withDepth == IF p.depth_chart_order = 1 THEN base + 20 ELSE base
        withExp == IF p.years_exp >= 5 THEN withDepth + 7 ELSE withDepth
    IN Max(40, Min(withExp, 130))

\* The Sleeper payload the sync receives: 30 active players of valid
\* positions, one inactive record and one record of a position the app drops.
FeedPosition(i) ==
    CASE i \in {1, 2, 16, 17, 18} -> "QB"
      [] i \in 3..7 \cup 19..23 -> "RB"
      [] i \in 8..12 \cup 24..28 -> "WR"
      [] i \in {13, 29} -> "TE"
      [] i \in {14, 30, 31} -> "K"
      [] i = 15 -> "DEF"
      [] OTHER -> "LB"

Payload ==
    [i \in 1..32 |->
        [sid |-> i,
         active |-> (i # 31),
         position |-> FeedPosition(i),
         depth_chart_order |-> IF i % 5 = 1 THEN 1 ELSE 2,
         years_exp |-> i % 7]]

NextId(rows) == 1 + Cardinality(rows)

RECURSIVE SyncRows(_, _, _)
SyncRows(payload, i, rows) ==
    IF i > Len(payload) THEN rows
    ELSE LET p == payload[i] IN
         IF ~p.active \/ p.position \notin VALID_POS
         THEN SyncRows(payload, i + 1, rows)
         ELSE LET pos_app == IF p.position = "DEF" THEN "DST" ELSE p.position
                  price_m == price_for_player(p)
                  old == {r \in rows : r.external_id = p.sid}
              IN IF old # {}
                 THEN SyncRows(payload, i + 1,
                        (rows \ old) \cup
                        {[id |-> r.id, external_id |-> r.external_id,
                          pos |-> pos_app, price_m |-> price_m] : r \in old})
                 ELSE SyncRows(payload, i + 1,
                        rows \cup {[id |-> NextId(rows), external_id |-> p.sid,
                                    pos |-> pos_app, price_m |-> price_m]})

(* ------------------------------ requests ------------------------------- *)
NoChip == "None"
Chips == {NoChip, "WC", "BB", "TC"}

SqA == Interval(1, 15)
SqB == Interval(16, 30)
Sq16 == Interval(1, 16)
SqDup == <<1>> \o Interval(1, 14)
SqUnknown == Interval(1, 14) \o <<31>>

SquadInputs == {SqA, SqB, Sq16, SqDup, SqUnknown}

LnValid == [starters |-> <<1, 3, 4, 8, 9, 13, 14, 15, 5>>, captain_id |-> 1, vice_captain_id |-> 3]
LnDup == [starters |-> <<1, 1, 3, 4, 8, 9, 13, 14, 15>>, captain_id |-> 1, vice_captain_id |-> 3]
LnBadForm == [starters |-> Interval(1, 9), captain_id |-> 1, vice_captain_id |-> 2]
LnOutside == [starters |-> <<15, 17, 3, 4, 8, 9, 13, 14, 1>>, captain_id |-> 15, vice_captain_id |-> 15]
LnShort == [starters |-> Interval(1, 8), captain_id |-> 1, vice_captain_id |-> 2]
LnCapOut == [starters |-> <<1, 3, 4, 8, 9, 13, 14, 15, 5>>, captain_id |-> 2, vice_captain_id |-> 3]

LineupInputs == {LnValid, LnDup, LnBadForm, LnOutside, LnShort, LnCapOut}

\* The /lineup/set bodies submitted: the well-formed lineup with every chip,
\* the others without a chip.
LineupCalls ==
    {<<LnValid, chip>> : chip \in Chips}
        \cup {<<inp, NoChip>> : inp \in LineupInputs \ {LnValid}}

Resp(op, detail) == [op |-> op, detail |-> detail]

(* ------------------------------- helpers of app.py --------------------- *)
get_user_id(x_user) == IF x_user # NoUser THEN OK ELSE ErrMissingUser

ensure_gameweek(gws, gw_id, t) ==
    IF \E g \in gws : g.id = gw_id
    THEN gws
    ELSE gws \cup {[id |-> gw_id, deadline_at |-> t + DeadlineDays]}

SquadRows(picks, u, g) == {sp \in picks : sp.user_id = u /\ sp.gameweek = g}

SquadIds(picks, u, g) == {sp.player_id : sp \in SquadRows(picks, u, g)}

NewRows(u, g, ids) ==
    {[user_id |-> u, gameweek |-> g, player_id |-> pid] : pid \in Range(ids)}

ReplaceSquad(picks, u, g, ids) ==
    (picks \ SquadRows(picks, u, g)) \cup NewRows(u, g, ids)

\* set_squad without its look-up of the submitted ids in the players table.
SquadError_NoLookup(player_ids, plrs) ==
    IF Len(player_ids) # SquadSize THEN ErrSquadSize ELSE OK

\* The validation of set_squad, in the order of the code; OK when it passes.
SquadError(player_ids, plrs) ==
    IF Len(player_ids) # SquadSize THEN ErrSquadSize
    ELSE IF Cardinality({p \in plrs : p.id \in Range(player_ids)}) # SquadSize
         THEN ErrNotFound
         ELSE OK

\* set_lineup with the squad checks moved ahead of the captaincy checks.
LineupError_SquadFirst(inp, squad_ids) ==
    IF Len(inp.starters) # StartersSize THEN ErrStarters
    ELSE IF Cardinality(squad_ids) # SquadSize THEN ErrNoSquad
    ELSE IF ~(Range(inp.starters) \subseteq squad_ids) THEN ErrNotInSquad
    ELSE IF inp.captain_id = inp.vice_captain_id THEN ErrCapVice
    ELSE IF inp.captain_id \notin Range(inp.starters)
            \/ inp.vice_captain_id \notin Range(inp.starters) THEN ErrCapAmong
    ELSE OK

\* The validation of set_lineup, in the order of the code; OK when it passes.
LineupError(inp, squad_ids) ==
    IF Len(inp.starters) # StartersSize THEN ErrStarters
    ELSE IF inp.captain_id = inp.vice_captain_id THEN ErrCapVice
    ELSE IF inp.captain_id \notin Range(inp.starters)
            \/ inp.vice_captain_id \notin Range(inp.starters) THEN ErrCapAmong
    ELSE IF Cardinality(squad_ids) # SquadSize THEN ErrNoSquad
    ELSE IF ~(Range(inp.starters) \subseteq squad_ids) THEN ErrNotInSquad
    ELSE OK

LineupRow(u, g, inp, chip) ==
    [user_id |-> u, gameweek |-> g, starters_json |-> inp.starters,
     captain_id |-> inp.captain_id, vice_captain_id |-> inp.vice_captain_id,
     chip |-> chip]

UpsertLineup(lns, u, g, inp, chip) ==
    {l \in lns : ~(l.user_id = u /\ l.gameweek = g)} \cup {LineupRow(u, g, inp, chip)}

(* ------------------------------- state --------------------------------- *)
\* A /squad/set request in flight: where its handler stands, its input, the
\* rows its DELETE statement saw and removed, the rows its flush inserted, and
\* the answer of the request that used this worker last.
Txn(pc, u, g, ids, target, deleted, inserted, result) ==
    [pc |-> pc, x_user |-> u, gameweek |-> g, ids |-> ids,
     target |-> target, deleted |-> deleted, inserted |-> inserted,
     result |-> result]

IdleTxn(result) == Txn("idle", NoUser, 0, <<>>, {}, {}, {}, result)

InitTables ==
    /\ players = {}
    /\ gameweeks = {}
    /\ squad_picks = {}
    /\ lineups = {}
    /\ now = 0
    /\ response = Resp("none", OK)
    /\ served = 0
    /\ txns = [t \in Txns |-> IdleTxn("none")]

\* DATABASE_URL defaults to the SQLite file.
Init ==
    /\ InitTables
    /\ backend = "sqlite"

(* ------------------------- endpoints, one at a time -------------------- *)
sync_players ==
    /\ players' = SyncRows(Payload, 1, players)
    /\ response' = Resp("players/sync", OK)
    /\ UNCHANGED <<gameweeks, squad_picks, lineups, now, served, backend, txns>>

set_squad(x_user, gw, player_ids) ==
    /\ served < MaxServed
    /\ served' = served + 1
    /\ IF get_user_id(x_user) # OK
       THEN /\ response' = Resp("squad/set", get_user_id(x_user))
            /\ UNCHANGED <<gameweeks, squad_picks>>
       ELSE LET err == SquadError(player_ids, players) IN
            /\ gameweeks' = ensure_gameweek(gameweeks, gw, now)
            /\ response' = Resp("squad/set", err)
            /\ squad_picks' = IF err = OK
                              THEN ReplaceSquad(squad_picks, x_user, gw, player_ids)
                              ELSE squad_picks
    /\ UNCHANGED <<players, lineups, now, backend, txns>>

set_lineup(x_user, gw, inp, chip) ==
    /\ served < MaxServed
    /\ served' = served + 1
    /\ IF get_user_id(x_user) # OK
       THEN /\ response' = Resp("lineup/set", get_user_id(x_user))
            /\ UNCHANGED <<gameweeks, lineups>>
       ELSE LET err == LineupError(inp, SquadIds(squad_picks, x_user, gw)) IN
            /\ gameweeks' = ensure_gameweek(gameweeks, gw, now)
            /\ response' = Resp("lineup/set", err)
            /\ lineups' = IF err = OK
                          THEN UpsertLineup(lineups, x_user, gw, inp, chip)
                          ELSE lineups
    /\ UNCHANGED <<players, squad_picks, now, backend, txns>>

create_gw(id, has_deadline, deadline_at) ==
    /\ served < MaxServed
    /\ served' = served + 1
    /\ IF \E g \in gameweeks : g.id = id
       THEN /\ response' = Resp("gameweeks/create", ErrGWExists)
            /\ UNCHANGED gameweeks
       ELSE /\ response' = Resp("gameweeks/create", OK)
            /\ gameweeks' = gameweeks \cup
                 {[id |-> id,
                   deadline_at |-> IF has_deadline THEN deadline_at
                                   ELSE now + DeadlineDays]}
    /\ UNCHANGED <<players, squad_picks, lineups, now, backend, txns>>

\* datetime.utcnow() advances between calls.
Tick ==
    /\ now < MaxNow
    /\ now' = now + 1
    /\ UNCHANGED <<players, gameweeks, squad_picks, lineups, response, served,
                   backend, txns>>

CallSquad == \E u \in Users, g \in GWIds, ids \in SquadInputs : set_squad(u, g, ids)
CallLineup == \E u \in Users, g \in GWIds, c \in LineupCalls : set_lineup(u, g, c[1], c[2])
\* Without the X-User header the handlers stop before they read anything else.
CallAnonymous ==
    \/ \E g \in GWIds : set_squad(NoUser, g, SqA)
    \/ \E g \in GWIds : set_lineup(NoUser, g, LnValid, NoChip)
CallCreateGW == \E g \in GWIds, hd \in BOOLEAN, d \in 0..MaxNow : create_gw(g, hd, d)

Next ==
    \/ sync_players
    \/ CallSquad
    \/ CallLineup
    \/ CallCreateGW
    \/ CallAnonymous
    \/ Tick

Spec == Init /\ [][Next]_vars

(* ---------------- /squad/set requests running concurrently ------------- *)
\* Each request runs set_squad in its own session: lines 386-397 read and
\* validate, line 400 issues the DELETE, db.commit() flushes the INSERTs and
\* commits.  Under SQLite the DELETE takes the database write lock, which is
\* held to the commit; under an MVCC server at READ COMMITTED a statement sees
\* the rows committed when it starts and waits only for rows another open
\* transaction has deleted or inserted.
InFlight(t) == txns[t].pc \in {"deleting", "deleted", "flushed"}

HoldsRows(t) == txns[t].pc \in {"deleted", "flushed"}

BeginSquad(t, x_user, gw, player_ids) ==
    /\ txns[t].pc = "idle"
    /\ LET err == SquadError(player_ids, players) IN
       /\ gameweeks' = ensure_gameweek(gameweeks, gw, now)
       /\ txns' = [txns EXCEPT ![t] =
                     IF err = OK
                     THEN Txn("validated", x_user, gw, player_ids, {}, {}, {}, "none")
                     ELSE IdleTxn(err)]
    /\ UNCHANGED <<players, squad_picks, lineups, now, response, served, backend>>

DeleteStart(t) ==
    /\ txns[t].pc = "validated"
    /\ backend = "sqlite" => \A o \in Txns \ {t} : ~InFlight(o)
    /\ txns' = [txns EXCEPT ![t].pc = "deleting",
                            ![t].target = SquadRows(squad_picks, txns[t].x_user,
                                                    txns[t].gameweek)]
    /\ UNCHANGED <<players, gameweeks, squad_picks, lineups, now, response, served,
                   backend>>

\* SQLite gives up waiting for the write lock after its busy timeout.
DeleteTimeout(t) ==
    /\ txns[t].pc = "validated"
    /\ backend = "sqlite"
    /\ \E o \in Txns \ {t} : InFlight(o)
    /\ txns' = [txns EXCEPT ![t] = IdleTxn(ErrLocked)]
    /\ UNCHANGED <<players, gameweeks, squad_picks, lineups, now, response, served,
                   backend>>

DeleteFinish(t) ==
    /\ txns[t].pc = "deleting"
    /\ \A o \in Txns \ {t} : HoldsRows(o) => txns[o].deleted \cap txns[t].target = {}
    /\ txns' = [txns EXCEPT ![t].pc = "deleted",
                            ![t].deleted = txns[t].target \cap squad_picks]
    /\ UNCHANGED <<players, gameweeks, squad_picks, lineups, now, response, served,
                   backend>>

Flush(t) ==
    LET rows == NewRows(txns[t].x_user, txns[t].gameweek, txns[t].ids) IN
    /\ txns[t].pc = "deleted"
    /\ \A o \in Txns \ {t} :
          HoldsRows(o) => (txns[o].inserted \cup txns[o].deleted) \cap rows = {}
    /\ txns' = [txns EXCEPT ![t] =
                  IF rows \cap (squad_picks \ txns[t].deleted) # {}
                  THEN IdleTxn(ErrIntegrity)
                  ELSE [txns[t] EXCEPT !.pc = "flushed", !.inserted = rows]]
    /\ UNCHANGED <<players, gameweeks, squad_picks, lineups, now, response, served,
                   backend>>

Commit(t) ==
    /\ txns[t].pc = "flushed"
    /\ squad_picks' = (squad_picks \ txns[t].deleted) \cup txns[t].inserted
    /\ txns' = [txns EXCEPT ![t] = IdleTxn(OK)]
    /\ UNCHANGED <<players, gameweeks, lineups, now, response, served, backend>>

\* DATABASE_URL selects the database server.
InitConc ==
    /\ InitTables
    /\ backend \in Backends

NextConc ==
    \/ sync_players
    \/ \E t \in Txns, u \in Users, g \in GWIds, ids \in SquadInputs : BeginSquad(t, u, g, ids)
    \/ \E t \in Txns : DeleteStart(t)
    \/ \E t \in Txns : DeleteTimeout(t)
    \/ \E t \in Txns : DeleteFinish(t)
    \/ \E t \in Txns : Flush(t)
    \/ \E t \in Txns : Commit(t)

SpecConc == InitConc /\ [][NextConc]_vars


(* ===================== properties of the sequential API ================ *)
Pairs == Users \X GWIds

PlayerIds == {p.id : p \in players}

PosCount(ids, pos) == Cardinality({p \in players : p.id \in ids /\ p.pos = pos})

RECURSIVE TotalPrice(_)
TotalPrice(rows) ==
    IF rows = {} THEN 0
    ELSE LET r == CHOOSE x \in rows : TRUE IN r.price_m + TotalPrice(rows \ {r})

SquadPrice(ids) == TotalPrice({p \in players : p.id \in ids})

WithinCaps(ids) ==
    /\ PosCount(ids, "QB") <= 2
    /\ PosCount(ids, "RB") <= 5
    /\ PosCount(ids, "WR") <= 5
    /\ PosCount(ids, "TE") <= 2
    /\ PosCount(ids, "K") <= 1
    /\ PosCount(ids, "DST") <= 1

\* 1 QB, 2 RB, 2 WR, 1 TE, 1 K, 1 DST and one FLEX taken by an RB, WR or TE.
FormationOK(starters) ==
    LET ids == Range(starters) IN
    /\ Cardinality(ids) = StartersSize
    /\ PosCount(ids, "QB") = 1
    /\ PosCount(ids, "K") = 1
    /\ PosCount(ids, "DST") = 1
    /\ PosCount(ids, "RB") >= 2
    /\ PosCount(ids, "WR") >= 2
    /\ PosCount(ids, "TE") >= 1
    /\ PosCount(ids, "RB") + PosCount(ids, "WR") + PosCount(ids, "TE") = 6

SquadWellFormed ==
    \A pr \in Pairs :
        LET rows == SquadRows(squad_picks, pr[1], pr[2]) IN
        \/ rows = {}
        \/ /\ Cardinality(rows) = SquadSize
           /\ Cardinality({r.player_id : r \in rows}) = SquadSize
           /\ {r.player_id : r \in rows} \subseteq PlayerIds

MalformedSquadInput(ids) ==
    \/ Len(ids) # SquadSize
    \/ Cardinality(Range(ids)) # Len(ids)
    \/ ~(Range(ids) \subseteq PlayerIds)

\* C1: with /squad/set calls run one at a time, the stored squad of every
\* (user, gameweek) is empty or exactly 15 rows of 15 distinct catalog players,
\* and a submission of a wrong count, with a duplicate or with an unknown id is
\* rejected and leaves the squad rows as they were.  No squad is stored
\* initially, so the shape is checked after every step that changes the squad
\* rows or the catalog.
C1_SquadIsFifteenDistinctKnown ==
    [][/\ (squad_picks' # squad_picks \/ players' # players) => SquadWellFormed'
       /\ response'.op = "squad/set" =>
            \A u \in Users, g \in GWIds, ids \in SquadInputs :
               (MalformedSquadInput(ids) /\ set_squad(u, g, ids))
                  => (response'.detail # OK /\ squad_picks' = squad_picks)]_vars

\* A squad is stored and the last /squad/set call was rejected for an unknown id.
C1_Witness ==
    /\ response = Resp("squad/set", ErrNotFound)
    /\ \E pr \in Pairs : Cardinality(SquadRows(squad_picks, pr[1], pr[2])) = SquadSize

\* C2: every accepted squad keeps the per-position caps and costs at most the
\* budget of 100.0 (1000 tenths).
C2_AcceptedSquadWithinCapsAndBudget ==
    \A pr \in Pairs :
        LET ids == SquadIds(squad_picks, pr[1], pr[2]) IN
        ids # {} => (WithinCaps(ids) /\ SquadPrice(ids) <= 1000)

\* C3: every accepted lineup has exactly 9 distinct starters, all in the squad
\* stored at acceptance, and a captain and a vice-captain that differ and are
\* both starters.
C3_AcceptedLineupNineDistinctStarters ==
    [][\A u \in Users, g \in GWIds, c \in LineupCalls :
          (set_lineup(u, g, c[1], c[2]) /\ response'.detail = OK)
             => /\ Len(c[1].starters) = StartersSize
                /\ Cardinality(Range(c[1].starters)) = StartersSize
                /\ Range(c[1].starters) \subseteq SquadIds(squad_picks, u, g)
                /\ c[1].captain_id # c[1].vice_captain_id
                /\ c[1].captain_id \in Range(c[1].starters)
                /\ c[1].vice_captain_id \in Range(c[1].starters)]_vars

\* C4: every accepted lineup satisfies the formation; a candidate that cannot
\* fill the slots is rejected.  Stated for candidates of 9 distinct starters,
\* so that a violation does not rest on repeated starters (C3).
C4_AcceptedLineupSatisfiesFormation ==
    [][\A u \in Users, g \in GWIds, c \in LineupCalls :
          (/\ Cardinality(Range(c[1].starters)) = StartersSize
           /\ set_lineup(u, g, c[1], c[2])
           /\ response'.detail = OK)
             => FormationOK(c[1].starters)]_vars

\* C5: a rejected /squad/set or /lineup/set leaves squad rows, lineup rows and
\* gameweek rows exactly as they were.
C5_RejectionChangesNothing ==
    [][/\ \A u \in Users \cup {NoUser}, g \in GWIds, ids \in SquadInputs :
             (set_squad(u, g, ids) /\ response'.detail # OK)
                => UNCHANGED <<squad_picks, lineups, gameweeks>>
       /\ \A u \in Users \cup {NoUser}, g \in GWIds, c \in LineupCalls :
             (set_lineup(u, g, c[1], c[2]) /\ response'.detail # OK)
                => UNCHANGED <<squad_picks, lineups, gameweeks>>]_vars

DeadlinePassed(g) == \E gw \in gameweeks : gw.id = g /\ now > gw.deadline_at

WildcardActive(u, g) ==
    \E l \in lineups : l.user_id = u /\ l.gameweek = g /\ l.chip = "WC"

\* C6: once a gameweek's deadline has passed, /squad/set for it is rejected and
\* the stored squad stays, unless a wildcard is active for that gameweek.
C6_NoSquadChangeAfterDeadline ==
    [][\A u \in Users, g \in GWIds, ids \in SquadInputs :
          (set_squad(u, g, ids) /\ DeadlinePassed(g) /\ ~WildcardActive(u, g))
             => (response'.detail # OK /\ squad_picks' = squad_picks)]_vars

\* C8: every stored lineup's starters, captain and vice-captain are in the
\* squad currently stored for the same (user, gameweek).
C8_LineupWithinCurrentSquad ==
    \A l \in lineups :
        (Range(l.starters_json) \cup {l.captain_id, l.vice_captain_id})
            \subseteq SquadIds(squad_picks, l.user_id, l.gameweek)

\* C9: no chip is the active chip of one user's lineups in two gameweeks.
C9_ChipOncePerSeason ==
    \A l1 \in lineups, l2 \in lineups :
        (l1.user_id = l2.user_id /\ l1.gameweek # l2.gameweek /\ l1.chip # NoChip)
            => l1.chip # l2.chip

StartersOutsideSquad(u, g, inp) ==
    ~(Range(inp.starters) \subseteq SquadIds(squad_picks, u, g))

\* C10: a candidate that fails several conditions is rejected for the first in
\* the order: 9 starters all in the squad, formation, captaincy; so 9 starters
\* not all in the stored squad with captain = vice-captain are rejected for the
\* squad membership.
C10_SquadMembershipNamedFirst ==
    [][response'.op = "lineup/set" =>
         \A u \in Users, g \in GWIds, c \in LineupCalls :
            (/\ Len(c[1].starters) = StartersSize
             /\ Cardinality(SquadIds(squad_picks, u, g)) = SquadSize
             /\ StartersOutsideSquad(u, g, c[1])
             /\ c[1].captain_id = c[1].vice_captain_id
             /\ set_lineup(u, g, c[1], c[2]))
               => response'.detail = ErrNotInSquad]_vars

\* The conditions of /lineup/set and the answers that name them, in the order
\* in which the handler tests them.
LineupConditions(u, g, inp) ==
    << <<Len(inp.starters) # StartersSize, ErrStarters>>,
       <<inp.captain_id = inp.vice_captain_id, ErrCapVice>>,
       <<inp.captain_id \notin Range(inp.starters)
           \/ inp.vice_captain_id \notin Range(inp.starters), ErrCapAmong>>,
       <<Cardinality(SquadIds(squad_picks, u, g)) # SquadSize, ErrNoSquad>>,
       <<StartersOutsideSquad(u, g, inp), ErrNotInSquad>> >>

\* C10 as amended: the rejection names the first failing condition in the
\* order count of 9, captain # vice-captain, both among the starters, a squad
\* of 15 stored, starters all in the squad; a candidate failing none is
\* accepted.
C10_FirstFailingInHandlerOrder ==
    [][response'.op = "lineup/set" =>
         \A u \in Users, g \in GWIds, c \in LineupCalls :
            set_lineup(u, g, c[1], c[2]) =>
               LET conds == LineupConditions(u, g, c[1]) IN
               /\ \A i \in DOMAIN conds :
                     (conds[i][1] /\ \A j \in 1..(i - 1) : ~conds[j][1])
                        => response'.detail = conds[i][2]
               /\ (\A i \in DOMAIN conds : ~conds[i][1]) => response'.detail = OK]_vars

\* 9 starters outside the stored squad with captain = vice-captain were just
\* rejected for the captaincy.
C10_Witness ==
    /\ response = Resp("lineup/set", ErrCapVice)
    /\ \E pr \in Pairs :
          /\ Cardinality(SquadIds(squad_picks, pr[1], pr[2])) = SquadSize
          /\ \A inp \in LineupInputs :
                inp.captain_id = inp.vice_captain_id
                   => StartersOutsideSquad(pr[1], pr[2], inp)

SubmittableSquads == {Range(ids) : ids \in {x \in SquadInputs : Len(x) = SquadSize}}

\* C7: with /squad/set requests for one (user, gameweek) running concurrently,
\* the committed squad a reader sees is never partial and never mixes rows of two
\* submissions: it is empty or exactly one submitted set of 15 players.
C7_CommittedSquadIsOneSubmission ==
    \A pr \in Pairs :
        LET ids == SquadIds(squad_picks, pr[1], pr[2]) IN
        ids = {} \/ (Cardinality(ids) = SquadSize /\ ids \in SubmittableSquads)

====
